---- MODULE Spec2Model ----
(***************************************************************************)
(* renamer.py: create the destination directory, walk the source tree for *)
(* files whose extension is in the filter, copy every located file into   *)
(* the destination under "<name>.txt", numbering the name on a collision. *)
(*                                                                         *)
(* A file name is a sequence of one-character strings; a path is a        *)
(* sequence of names; the file system is a function from the paths that   *)
(* exist to [kind, content].                                               *)
(***************************************************************************)
EXTENDS Naturals, Integers, Sequences, FiniteSets, TLC

VARIABLES fs, pc, exit_status, formats_str, file_formats, found_files, idx,
          copied_count, error_count, source_dir, destination_dir,
          fs0, created, located, attempted, failed, written, last

vars == <<fs, pc, exit_status, formats_str, file_formats, found_files, idx,
          copied_count, error_count, source_dir, destination_dir,
          fs0, created, located, attempted, failed, written, last>>

(* ------------------------------ bounds -------------------------------- *)
\* at most MaxSrc optional entries are present in the source tree
MaxSrc == 2
\* at most MaxPre files are present in the destination before the run
MaxPre == 1

(* ---------------------------- sequences ------------------------------- *)
Range(s) == {s[i] : i \in 1..Len(s)}

Last(s) == s[Len(s)]

RECURSIVE Perms(_)
Perms(S) ==
  IF S = {} THEN {<<>>}
  ELSE UNION {{<<x>> \o p : p \in Perms(S \ {x})} : x \in S}

(* ------------------------------ str ----------------------------------- *)
UpperAlpha == <<"A","B","C","D","E","F","G","H","I","J","K","L","M",
                "N","O","P","Q","R","S","T","U","V","W","X","Y","Z">>
LowerAlpha == <<"a","b","c","d","e","f","g","h","i","j","k","l","m",
                "n","o","p","q","r","s","t","u","v","w","x","y","z">>

\* str.lower() on one character
LowerChar(c) ==
  IF \E i \in 1..Len(UpperAlpha) : UpperAlpha[i] = c
  THEN LowerAlpha[CHOOSE i \in 1..Len(UpperAlpha) : UpperAlpha[i] = c]
  ELSE c

\* str.lower()
Lower(s) == [i \in 1..Len(s) |-> LowerChar(s[i])]

\* str.strip(): leading and trailing white space removed
RECURSIVE Strip(_)
Strip(s) ==
  IF s = <<>> THEN s
  ELSE IF s[1] = " " THEN Strip(Tail(s))
  ELSE IF s[Len(s)] = " " THEN Strip(SubSeq(s, 1, Len(s) - 1))
  ELSE s

\* str.split(','): the pieces between the commas, empty pieces included
RECURSIVE Split(_)
Split(s) ==
  IF \A i \in 1..Len(s) : s[i] # ","
  THEN <<s>>
  ELSE LET i == CHOOSE j \in 1..Len(s) :
                  s[j] = "," /\ \A k \in 1..(j - 1) : s[k] # ","
       IN <<SubSeq(s, 1, i - 1)>> \o Split(SubSeq(s, i + 1, Len(s)))

Digits == <<"0","1","2","3","4","5","6","7","8","9">>

\* the decimal text of a counter, as the f-string formats it
RECURSIVE IntToStr(_)
IntToStr(n) ==
  IF n < 10 THEN <<Digits[n + 1]>>
  ELSE IntToStr(n \div 10) \o <<Digits[(n % 10) + 1]>>

(* ----------------------------- os.path -------------------------------- *)
\* os.path.splitext on a base name: the extension starts at the last dot,
\* unless only dots precede it
splitext(name) ==
  LET dots == {i \in 1..Len(name) : name[i] = "."}
  IN IF dots = {} THEN <<name, <<>>>>
     ELSE LET d == CHOOSE i \in dots : \A j \in dots : j <= i
          IN IF \E k \in 1..(d - 1) : name[k] # "."
             THEN <<SubSeq(name, 1, d - 1), SubSeq(name, d, Len(name))>>
             ELSE <<name, <<>>>>

\* os.path.basename
basename(path) == Last(path)

\* os.path.join(dir, name)
join(dir, name) == Append(dir, name)

\* os.path.exists
exists(f, path) == path \in DOMAIN f

isdir(f, path) == path \in DOMAIN f /\ f[path].kind = "dir"

\* the entries a directory lists
Children(f, dir) ==
  {p \in DOMAIN f : Len(p) = Len(dir) + 1 /\ SubSeq(p, 1, Len(dir)) = dir}

\* the proper ancestors of a path
Ancestors(path) == {SubSeq(path, 1, n) : n \in 1..(Len(path) - 1)}

(* --------------------------- file system ------------------------------ *)
File(c) == [kind |-> "file", content |-> c]
Dir == [kind |-> "dir", content |-> 0]
\* a FIFO, a socket, a device or a dangling symbolic link: os.walk lists it
\* among the files of its directory, shutil.copy2 raises on it
Special == [kind |-> "special", content |-> 0]

\* what the destination holds after a copy that failed while writing
Truncated == File(0)

\* f with path (over)written by entry
WriteEntry(f, path, entry) ==
  [p \in DOMAIN f \cup {path} |-> IF p = path THEN entry ELSE f[p]]

\* os.makedirs(path, exist_ok=True) raises whatever the permissions are:
\* the path or one of its ancestors is taken by something that is no directory
makedirs_must_fail(f, path) ==
  \/ exists(f, path) /\ ~isdir(f, path)
  \/ \E a \in Ancestors(path) : exists(f, a) /\ ~isdir(f, a)

\* os.makedirs(path, exist_ok=True) when it succeeds: the path and its
\* missing ancestors become directories, what exists is left alone
makedirs(f, path) ==
  [p \in DOMAIN f \cup Ancestors(path) \cup {path} |->
     IF p \in DOMAIN f THEN f[p] ELSE Dir]

(* ------------------------ parse_file_formats -------------------------- *)
parse_file_formats(s) ==
  LET parts == Split(s)
      formats == [i \in 1..Len(parts) |-> Strip(parts[i])]
  IN [i \in 1..Len(formats) |->
        IF formats[i] # <<>> /\ formats[i][1] = "."
        THEN formats[i] ELSE <<".">> \o formats[i]]

(* ----------------------- find_files_by_format ------------------------- *)
\* line 56-57 with the extension compared as it is written
matches_case_sensitive(file, formats) == splitext(file)[2] \in Range(formats)

\* line 56-57: the lower-cased extension is an element of the list
matches(file, formats) == Lower(splitext(file)[2]) \in Range(formats)

\* os.walk(top), top-down: the matching files of top in listing order, then
\* the walk of each sub-directory in listing order; the listing order is the
\* file system's choice, so the result is a set of possible lists
RECURSIVE walk(_, _, _), walk_dirs(_, _, _)
walk(f, top, formats) ==
  LET files == {p \in Children(f, top) : f[p].kind # "dir"}
      dirs == {p \in Children(f, top) : f[p].kind = "dir"}
      hit == {p \in files : matches(basename(p), formats)}
  IN {h \o r : h \in Perms(hit), r \in walk_dirs(f, dirs, formats)}

walk_dirs(f, dirs, formats) ==
  IF dirs = {} THEN {<<>>}
  ELSE UNION {{w \o r : w \in walk(f, d, formats),
                        r \in walk_dirs(f, dirs \ {d}, formats)} : d \in dirs}

\* the lists find_files_by_format can return
find_files_by_format(f, dir, formats) ==
  IF ~exists(f, dir) THEN {<<>>} ELSE walk(f, dir, formats)

(* ----------------------- copy_and_rename_files ------------------------ *)
TXT == <<".", "t", "x", "t">>

\* line 85
candidate_name(file_name) == file_name \o TXT

\* the numbered name with the counter put after the whole base name
numbered_name_after_base(file_name, counter) ==
  file_name \o <<"_">> \o IntToStr(counter) \o splitext(file_name)[2] \o TXT

\* line 93-95
numbered_name(file_name, counter) ==
  splitext(file_name)[1] \o <<"_">> \o IntToStr(counter)
     \o splitext(file_name)[2] \o TXT

\* one pass of the loop body and no second test
next_free_once(f, dir, file_name, counter) == numbered_name(file_name, counter)

\* line 92-97, from the first pass of the loop body on
RECURSIVE next_free(_, _, _, _)
next_free(f, dir, file_name, counter) ==
  IF exists(f, join(dir, numbered_name(file_name, counter)))
  THEN next_free(f, dir, file_name, counter + 1)
  ELSE numbered_name(file_name, counter)

\* the name chosen with no test of the destination
dest_name_unchecked(f, dir, file_name) == candidate_name(file_name)

\* line 85-97: the name the file is copied to
dest_name(f, dir, file_name) ==
  IF exists(f, join(dir, candidate_name(file_name)))
  THEN next_free(f, dir, file_name, 1)
  ELSE candidate_name(file_name)

(* ------------------------- the runs modelled -------------------------- *)
S == <<"s">>
D == <<"d">>
a_py == <<"a", ".", "p", "y">>
b_PY == <<"b", ".", "P", "Y">>
c_md == <<"c", ".", "m", "d">>
f_py == <<"f", ".", "p", "y">>
u_py == <<"u", ".", "p", "y">>
a_py_txt == <<"a", ".", "p", "y", ".", "t", "x", "t">>
a_1_py_txt == <<"a", "_", "1", ".", "p", "y", ".", "t", "x", "t">>
a_py_1_py_txt ==
  <<"a", ".", "p", "y", "_", "1", ".", "p", "y", ".", "t", "x", "t">>

\* the source directory of every run
SourceDir == <<S>>

\* what the source tree may hold: a file, a directory with a matching name
\* holding a file of the same base name, a file with an upper-case
\* extension, a file outside the filter, a special file, one more file
SourceBundles ==
  { (<<S, a_py>> :> File(1)),
    (<<S, u_py>> :> Dir) @@ (<<S, u_py, a_py>> :> File(2)),
    (<<S, b_PY>> :> File(3)),
    (<<S, c_md>> :> File(4)),
    (<<S, f_py>> :> Special),
    (<<S, u_py>> :> Dir) @@ (<<S, u_py, u_py>> :> Dir)
       @@ (<<S, u_py, u_py, a_py>> :> File(5)) }

\* the destination is outside the source tree, inside it, or the source itself
DestDirs == {<<D>>, <<S, D>>, <<S>>}

\* the names the destination may hold before the run
PreNames == {a_py_txt, a_1_py_txt, a_py_1_py_txt}

\* the values of --formats
FormatStrings ==
  { <<"p", "y">>,
    <<".", "p", "y">>,
    <<"P", "Y">>,
    <<"p", "y", ",", " ", "t", "x", "t">>,
    <<"m", "d", ",", ".", "P", "y">> }

RECURSIVE MergeAll(_)
MergeAll(fns) ==
  IF fns = {} THEN <<>>
  ELSE LET g == CHOOSE x \in fns : TRUE IN g @@ MergeAll(fns \ {g})

\* the file systems a run may start from
InitialFileSystems(dest) ==
  LET sources == {MergeAll(bs) : bs \in {x \in SUBSET SourceBundles :
                                           Cardinality(x) <= MaxSrc}}
      pres == {[p \in {join(dest, n) : n \in ns} |-> File(9)] :
                  ns \in {x \in SUBSET PreNames : Cardinality(x) <= MaxPre}}
      srcdir == (SourceDir :> Dir)
  IN \* the source is missing: the destination is missing, a directory or a file
     (IF dest = <<D>>
      THEN {<<>>, (dest :> File(7))} \cup {pre @@ (dest :> Dir) : pre \in pres}
      ELSE {<<>>})
     \cup
     \* the source is a directory
     (IF dest = SourceDir
      THEN {src @@ pre @@ srcdir : src \in sources, pre \in pres}
      ELSE {src @@ srcdir : src \in sources}
           \cup {src @@ srcdir @@ (dest :> File(7)) : src \in sources}
           \cup {src @@ srcdir @@ pre @@ (dest :> Dir) :
                    src \in sources, pre \in pres})

NoResolution == [file_name |-> <<>>, before |-> {}, name |-> <<>>]

Init ==
  /\ source_dir = SourceDir
  /\ destination_dir \in DestDirs
  /\ formats_str \in FormatStrings
  /\ fs \in InitialFileSystems(destination_dir)
  /\ fs0 = fs
  /\ pc = "start"
  /\ exit_status = -1
  /\ file_formats = <<>>
  /\ found_files = <<>>
  /\ idx = 1
  /\ copied_count = 0
  /\ error_count = 0
  /\ created = "pending"
  /\ located = FALSE
  /\ attempted = <<>>
  /\ failed = {}
  /\ written = <<>>
  /\ last = NoResolution

(* ------------------------------- main --------------------------------- *)
\* line 157-171: the arguments are parsed, the settings are printed
ParseArgs ==
  /\ pc = "start"
  /\ file_formats' = parse_file_formats(formats_str)
  /\ pc' = "create"
  /\ UNCHANGED <<fs, exit_status, formats_str, found_files, idx, copied_count,
                 error_count, source_dir, destination_dir, fs0, created,
                 located, attempted, failed, written, last>>

\* the creation error is reported and the run goes on
on_create_error_continue == [pc |-> "find", exit_status |-> -1]

\* line 29-31: sys.exit(1)
on_create_error == [pc |-> "done", exit_status |-> 1]

\* line 26-28 and 174: the directory is there or is made
CreateDestOk ==
  /\ pc = "create"
  /\ ~makedirs_must_fail(fs, destination_dir)
  /\ fs' = makedirs(fs, destination_dir)
  /\ created' = "ok"
  /\ pc' = "find"
  /\ UNCHANGED <<exit_status, formats_str, file_formats, found_files, idx,
                 copied_count, error_count, source_dir, destination_dir, fs0,
                 located, attempted, failed, written, last>>

\* line 26-31 and 174: os.makedirs raises, because the path is taken by a
\* non-directory or because the system refuses to make a missing directory
CreateDestFail ==
  /\ pc = "create"
  /\ makedirs_must_fail(fs, destination_dir) \/ ~isdir(fs, destination_dir)
  /\ created' = "failed"
  /\ pc' = on_create_error.pc
  /\ exit_status' = on_create_error.exit_status
  /\ UNCHANGED <<fs, formats_str, file_formats, found_files, idx,
                 copied_count, error_count, source_dir, destination_dir, fs0,
                 located, attempted, failed, written, last>>

\* a missing source directory ends the run with status 1
on_source_missing_fatal == [pc |-> "done", exit_status |-> 1]

\* line 46-48 and 177-180: the empty list is returned and main goes on
on_source_missing == [pc |-> "copy", exit_status |-> -1]

\* line 46-48 and 177: the source directory does not exist
FindMissing ==
  /\ pc = "find"
  /\ ~exists(fs, source_dir)
  /\ found_files' \in find_files_by_format(fs, source_dir, file_formats)
  /\ located' = TRUE
  /\ pc' = on_source_missing.pc
  /\ exit_status' = on_source_missing.exit_status
  /\ UNCHANGED <<fs, formats_str, file_formats, idx, copied_count,
                 error_count, source_dir, destination_dir, fs0, created,
                 attempted, failed, written, last>>

\* line 50-62 and 177: the whole tree is walked and the list is returned
FindWalk ==
  /\ pc = "find"
  /\ exists(fs, source_dir)
  /\ found_files' \in find_files_by_format(fs, source_dir, file_formats)
  /\ located' = TRUE
  /\ pc' = "copy"
  /\ UNCHANGED <<fs, exit_status, formats_str, file_formats, idx,
                 copied_count, error_count, source_dir, destination_dir, fs0,
                 created, attempted, failed, written, last>>

\* line 72-74 and 182: nothing to copy, main returns
CopyNothing ==
  /\ pc = "copy"
  /\ found_files = <<>>
  /\ pc' = "done"
  /\ exit_status' = 0
  /\ UNCHANGED <<fs, formats_str, file_formats, found_files, idx,
                 copied_count, error_count, source_dir, destination_dir, fs0,
                 created, located, attempted, failed, written, last>>

\* the name resolved for the file at position i: line 82-97
Resolution(f, i) ==
  LET file_name == basename(found_files[i])
  IN [file_name |-> file_name,
      before |-> {basename(p) : p \in Children(f, destination_dir)},
      name |-> dest_name(f, destination_dir, file_name)]

\* the first failure ends the loop
index_after_error_break(i, n) == n + 1

\* line 104-106, then the for statement of line 79 takes the next item
index_after_error(i, n) == i + 1

\* line 79-102: one pass of the loop in which shutil.copy2 succeeds
CopyOk ==
  /\ pc = "copy"
  /\ idx <= Len(found_files)
  /\ LET file_path == found_files[idx]
         r == Resolution(fs, idx)
         dest_file_path == join(destination_dir, r.name)
     IN /\ fs[file_path].kind = "file"
        /\ fs' = WriteEntry(fs, dest_file_path, File(fs[file_path].content))
        /\ written' = Append(written, [src |-> file_path,
                                       dst |-> dest_file_path,
                                       content |-> fs[file_path].content])
        /\ attempted' = Append(attempted, file_path)
        /\ last' = r
  /\ copied_count' = copied_count + 1
  /\ idx' = idx + 1
  /\ UNCHANGED <<pc, exit_status, formats_str, file_formats, found_files,
                 error_count, source_dir, destination_dir, fs0, created,
                 located, failed>>

\* line 79-100 and 104-106: one pass of the loop in which shutil.copy2
\* raises, before the destination file is opened or while it is written
CopyFail ==
  /\ pc = "copy"
  /\ idx <= Len(found_files)
  /\ LET file_path == found_files[idx]
         r == Resolution(fs, idx)
         dest_file_path == join(destination_dir, r.name)
     IN /\ \/ fs' = fs
           \/ /\ fs[file_path].kind = "file"
              /\ fs' = WriteEntry(fs, dest_file_path, Truncated)
        /\ attempted' = Append(attempted, file_path)
        /\ last' = r
  /\ failed' = failed \cup {idx}
  /\ error_count' = error_count + 1
  /\ idx' = index_after_error(idx, Len(found_files))
  /\ UNCHANGED <<pc, exit_status, formats_str, file_formats, found_files,
                 copied_count, source_dir, destination_dir, fs0, created,
                 located, written>>

\* line 108-110 and 182: the counts are printed, main returns
CopyFinish ==
  /\ pc = "copy"
  /\ found_files # <<>>
  /\ idx > Len(found_files)
  /\ pc' = "done"
  /\ exit_status' = 0
  /\ UNCHANGED <<fs, formats_str, file_formats, found_files, idx,
                 copied_count, error_count, source_dir, destination_dir, fs0,
                 created, located, attempted, failed, written, last>>

Next ==
  \/ ParseArgs
  \/ CreateDestOk
  \/ CreateDestFail
  \/ FindMissing
  \/ FindWalk
  \/ CopyNothing
  \/ CopyOk
  \/ CopyFail
  \/ CopyFinish

Spec == Init /\ [][Next]_vars

\* the interpreter runs the program on: every step that can be taken is taken
FairSpec == Spec /\ WF_vars(Next)

(* ------------------------------ claims -------------------------------- *)
\* the paths below a directory, at any depth
Under(f, dir) ==
  {p \in DOMAIN f : Len(p) > Len(dir) /\ SubSeq(p, 1, Len(dir)) = dir}

\* the names the destination directory holds
DestNames(f) == {basename(p) : p \in Children(f, destination_dir)}

\* the extension of the base name of a path
Ext(p) == splitext(basename(p))[2]

\* C1: the name chosen for a copy is never one the destination holds when it
\* is chosen; every file the destination held before the run, and every file
\* written earlier in the run, keeps its name and its content.
C1_NeverOverwrites ==
  /\ last.name \notin last.before
  /\ \A p \in Children(fs0, destination_dir) : exists(fs, p) /\ fs[p] = fs0[p]
  /\ \A i \in 1..Len(written) :
        exists(fs, written[i].dst) /\ fs[written[i].dst] = File(written[i].content)

\* a run ended in which the destination held files before, a copy collided
\* with one of them and two files were written
C1_Witness ==
  /\ pc = "done"
  /\ Children(fs0, destination_dir) # {}
  /\ Len(written) >= 2
  /\ candidate_name(last.file_name) \in last.before

\* C2: the resolved name is B.txt when that name is free; otherwise it is
\* stem_k ext .txt for the smallest k >= 1 whose name is free, whatever the
\* earlier files of the run were given.
C2_ResolvedName ==
  last # NoResolution =>
    LET B == last.file_name
        stem == splitext(B)[1]
        ext == splitext(B)[2]
        numbered(k) == stem \o <<"_">> \o IntToStr(k) \o ext \o TXT
    IN /\ stem \o ext = B
       /\ IF (B \o TXT) \notin last.before
          THEN last.name = B \o TXT
          ELSE \E k \in 1..(Cardinality(last.before) + 1) :
                  /\ last.name = numbered(k)
                  /\ numbered(k) \notin last.before
                  /\ \A j \in 1..(k - 1) : numbered(j) \in last.before

\* the second file of a run found B.txt and stem_1 ext .txt taken and was
\* given the counter 2
C2_Witness ==
  /\ Len(attempted) >= 2
  /\ last.file_name = a_py
  /\ last.name = <<"a", "_", "2", ".", "p", "y", ".", "t", "x", "t">>

\* the destination held a.py.txt before the run, a.py was the one file
\* located and its copy succeeded
ScenarioB ==
  /\ pc = "done"
  /\ a_py_txt \in DestNames(fs0)
  /\ Len(found_files) = 1
  /\ basename(found_files[1]) = a_py
  /\ copied_count = 1

\* C3, as stated: in scenario B the new file is named a.py_1.py.txt and
\* a.py.txt is not overwritten.
C3_AsStated ==
  ScenarioB =>
    /\ written[1].dst = join(destination_dir, a_py_1_py_txt)
    /\ fs[join(destination_dir, a_py_txt)] = fs0[join(destination_dir, a_py_txt)]

\* C3, amended: in scenario B, with a_1.py.txt free, the new file is named
\* a_1.py.txt and a.py.txt is not overwritten.
C3_Amended ==
  (ScenarioB /\ a_1_py_txt \notin DestNames(fs0)) =>
    /\ written[1].dst = join(destination_dir, a_1_py_txt)
    /\ fs[written[1].dst] = File(written[1].content)
    /\ fs[join(destination_dir, a_py_txt)] = fs0[join(destination_dir, a_py_txt)]

C3_Witness == ScenarioB /\ a_1_py_txt \notin DestNames(fs0)

\* the walk has just returned: the file system is the one it walked
JustLocated == pc = "copy" /\ located /\ attempted = <<>>

C5_CaseInsensitive ==
  JustLocated =>
    \A p \in Under(fs, source_dir) :
      (/\ fs[p].kind = "file"
       /\ \E i \in 1..Len(file_formats) : Lower(file_formats[i]) = Lower(Ext(p)))
      => p \in Range(found_files)

\* C6: the copies that succeed are under pairwise distinct names, each with
\* the content copied; after a run in which every copy succeeded the
\* destination holds as many more entries as files were located.
C6_DistinctNames ==
  /\ \A i, j \in 1..Len(written) :
        i # j => written[i].dst # written[j].dst
  /\ \A i \in 1..Len(written) :
        exists(fs, written[i].dst) /\ fs[written[i].dst].content = written[i].content
  /\ (pc = "done" /\ created = "ok" /\ error_count = 0) =>
        Cardinality(Children(fs, destination_dir)) =
          Cardinality(Children(fs0, destination_dir)) + Len(found_files)

\* two located files of the same base name were both copied, no copy failed
C6_Witness ==
  /\ pc = "done"
  /\ error_count = 0
  /\ Len(written) = 2
  /\ basename(written[1].src) = basename(written[2].src)

\* C7: the paths are attempted once each in list order; at the end
\* copied_count + error_count is the length of the list and error_count is
\* the number of items whose copy failed.
C7_BatchNeverAborts ==
  /\ Len(attempted) <= Len(found_files)
  /\ attempted = SubSeq(found_files, 1, Len(attempted))
  /\ error_count = Cardinality(failed)
  /\ copied_count = Len(written)
  /\ (pc = "done" /\ located) =>
        /\ attempted = found_files
        /\ copied_count + error_count = Len(found_files)

\* the first copy of a run failed and a later one succeeded
C7_Witness ==
  /\ pc = "done"
  /\ 1 \in failed
  /\ copied_count >= 1

\* C8: when the destination directory cannot be created the run has ended
\* with status 1, nothing was located, nothing was copied and the file
\* system is untouched; a destination path taken by a regular file is such
\* a case.
C8_CreateFailureIsFatal ==
  /\ created = "failed" =>
        /\ pc = "done"
        /\ exit_status = 1
        /\ ~located
        /\ found_files = <<>>
        /\ attempted = <<>>
        /\ written = <<>>
        /\ fs = fs0
  /\ (pc \notin {"start", "create"} /\ exists(fs0, destination_dir)
        /\ fs0[destination_dir].kind = "file") => created = "failed"

\* the destination path is a regular file, the source holds a file the
\* filter accepts, and the run has ended
C8_Witness ==
  /\ created = "failed"
  /\ exists(fs0, destination_dir)
  /\ fs0[destination_dir].kind = "file"
  /\ exists(fs, <<S, a_py>>)
  /\ <<".", "p", "y">> \in Range(file_formats)

\* the phases of main, in the order they are run
Phase(p) ==
  CASE p = "start" -> 4
    [] p = "create" -> 3
    [] p = "find" -> 2
    [] p = "copy" -> 1
    [] p = "done" -> 0

\* a step moves main to a later phase, or moves the loop one item on in the
\* list located, whose length is fixed
Progress ==
  \/ Phase(pc') < Phase(pc)
  \/ /\ pc' = pc
     /\ pc = "copy"
     /\ found_files' = found_files
     /\ idx < idx'
     /\ idx' <= Len(found_files) + 1

\* main can take its next step: the walk has a list to return, and in any
\* other phase a step of the program is enabled
CanStep ==
  IF pc = "find"
  THEN find_files_by_format(fs, source_dir, file_formats) # {}
  ELSE ENABLED Next

\* C9: once the destination directory is there the run ends with status 0:
\* it is never stuck before the end, every step is a step of progress towards
\* the end, and the end is reached with status 0. Status 1 is only ever set
\* by a failed creation; a missing source directory gives the empty list, no
\* copy and no error; copy failures do not change the status.
C9_NormalCompletion ==
  /\ [](exit_status = 1 => created = "failed")
  /\ []((pc = "done" /\ created = "ok") => exit_status = 0)
  /\ []((pc = "done" /\ created = "ok" /\ ~exists(fs, source_dir)) =>
          (found_files = <<>> /\ copied_count = 0 /\ error_count = 0))
  /\ []((created = "ok" /\ pc # "done") => CanStep)
  /\ [][Progress]_vars

\* the same under fairness: the run that is not stopped from outside reaches
\* the end with status 0
C9_Eventually == (created = "ok") ~> (pc = "done" /\ exit_status = 0)

\* a run in which every copy failed ended with status 0
C9_Witness ==
  /\ pc = "done"
  /\ exit_status = 0
  /\ error_count >= 2
  /\ copied_count = 0

\* C10: no copy is attempted before the walk has returned, and no path the
\* engine creates or writes is in the list located, wherever the destination
\* directory lies.
C10_LocatedBeforeCopied ==
  /\ attempted # <<>> => located
  /\ \A i \in 1..Len(written) : written[i].dst \notin Range(found_files)
  /\ \A p \in DOMAIN fs \ DOMAIN fs0 : p \notin Range(found_files)
  /\ \A i, j \in 1..Len(written) : written[i].dst # written[j].src

\* the destination is the source directory and the engine has written there
\* a file the filter accepts
C10_Witness ==
  /\ destination_dir = source_dir
  /\ Len(written) >= 1
  /\ matches(basename(written[1].dst), file_formats)
  /\ idx <= Len(found_files)
====
